---- MODULE Spec2Model ----
(***************************************************************************)
(* UE Git Plugin Manager: the setup-state detection and the install /      *)
(* update flows of internal/menu, internal/detection, internal/plugin,     *)
(* internal/engine and the git manager, over an abstract file system.      *)
(*                                                                         *)
(* The file system is abstracted to the facts the code probes:             *)
(*   - the origin clone, its remote-tracking ref and its engine-<v>        *)
(*     branches;                                                           *)
(*   - per version: the worktree directory and the built binaries in it;   *)
(*   - per engine: what occupies Engine/Plugins/UEGitPlugin_PB and the two *)
(*     manifest files of the stock plugin.                                 *)
(* External processes (git, mklink, rmdir, RunUAT) succeed only when their *)
(* preconditions hold, and may fail even then: every handler takes the     *)
(* name of the one external step that fails ("none" for no failure).       *)
(***************************************************************************)
EXTENDS Integers, Sequences, FiniteSets, TLC

\* ------------------------------------------------------------------ bounds
NumEngines == 2
MaxPart == 10
MaxComponents == 2
MaxLevel == 4
MaxFailures == 1
MaxCommits == 2
MaxExternal == 1
MaxRecords == 2

Engines == 1..NumEngines
Versions == 1..NumEngines

NoBranch == 0 - 1

\* What occupies <engine>/Engine/Plugins/UEGitPlugin_PB.  to = 0 stands for a
\* directory outside the worktrees directory (it exists).
NoLink == [kind |-> "none", to |-> 0]
PlainDir == [kind |-> "dir", to |-> 0]
LinkTo(t) == [kind |-> "link", to |-> t]
LinkVals == {NoLink, PlainDir} \cup {LinkTo(t) : t \in 0..NumEngines}

VARIABLES
    originCloned,   \* repo-origin/.git exists
    remoteRef,      \* origin/<default> as last fetched into repo-origin
    upstream,       \* head of <default> on the remote
    branch,         \* branch[v]: commit of engine-<v> in repo-origin, or NoBranch
    worktree,       \* worktree[v]: worktrees/UE_<v> exists
    binaries,       \* binaries[v]: Binaries/Win64 of the worktree holds the built files
    localCommits,   \* localCommits[v]: engine-<v> has commits the remote branch has not
    link,           \* link[e]: what occupies the plugin link path of engine e
    stockEnabled,   \* stockEnabled[e]: GitSourceControl.uplugin exists
    stockDisabled,  \* stockDisabled[e]: GitSourceControl.uplugin.disabled exists
    engines,        \* config.Engines as saved in config.json
    configExists,   \* config.json exists
    last,           \* the last handler run and what it did
    extCount,       \* external changes made so far
    version         \* version[e]: the version in the directory name of engine e

vars == <<originCloned, remoteRef, upstream, branch, worktree, binaries,
          localCommits, link, stockEnabled, stockDisabled, engines, configExists,
          last, extCount, version>>

\* engine.go extractVersion: the version is read off the directory name
\* UE_<v>..., which two engine directories may share (UE_5.4, UE_5.4_custom).
VersionOf(e) == version[e]

\* The part of the state the handlers read and write, as one value.
World ==
    [origin |-> originCloned, ref |-> remoteRef, branch |-> branch,
     wt |-> worktree, bin |-> binaries, local |-> localCommits, link |-> link,
     stockOn |-> stockEnabled, stockOff |-> stockDisabled,
     cfg |-> engines, cfgFile |-> configExists, up |-> upstream]

Store(w) ==
    /\ originCloned' = w.origin
    /\ remoteRef' = w.ref
    /\ branch' = w.branch
    /\ worktree' = w.wt
    /\ binaries' = w.bin
    /\ localCommits' = w.local
    /\ link' = w.link
    /\ stockEnabled' = w.stockOn
    /\ stockDisabled' = w.stockOff
    /\ engines' = w.cfg
    /\ configExists' = w.cfgFile

\* ------------------------------------------------------------- git manager
WorktreeExists(w, v) == w.wt[v]

IsOriginCloned(w) == w.origin

\* ---------------------------------------------------------- plugin manager
\* os.Stat follows the link: it succeeds when the path is a plain directory or a
\* link whose destination exists.
StatFollows(w, e) ==
    LET l == w.link[e] IN
    CASE l.kind = "none" -> FALSE
      [] l.kind = "dir" -> TRUE
      [] OTHER -> IF l.to = 0 THEN TRUE ELSE w.wt[l.to]

\* fsutil reparsepoint query / FSCTL_GET_REPARSE_POINT: asks the path itself.
IsJunction(w, e) == w.link[e].kind = "link"

JunctionExists(w, e) ==
    IF ~StatFollows(w, e) THEN FALSE ELSE IsJunction(w, e)

\* The same check as unnamed/part_006 writes it, with os.Lstat.
JunctionExistsLstat(w, e) ==
    IF w.link[e].kind = "none" THEN FALSE ELSE IsJunction(w, e)

VerifyJunction(w, e, v) ==
    IF ~JunctionExists(w, e) THEN FALSE ELSE w.link[e].to = v

\* ---------------------------------------------------------- engine manager
CheckPluginCollision(w, e) == w.stockOn[e]

GetStockPluginStatus(w, e) ==
    IF w.stockOn[e] THEN "enabled"
    ELSE IF w.stockOff[e] THEN "disabled"
    ELSE "not_found"

\* ---------------------------------------------------------------- detection
checkBinariesExist(w, v) == w.wt[v] /\ w.bin[v]

IssueWorktree == "Worktree does not exist"
IssueNoJunction == "Plugin junction does not exist"
IssueBadJunction == "Plugin junction points to incorrect location"
IssueBinaries == "Plugin binaries not found in worktree"
IssueStock == "Stock Git plugin is still enabled (may cause conflicts)"

\* A detector that lists the binaries of a worktree that is not there.
IssuesOfEveryCondition(wtE, jE, jV, bE, st) ==
    (IF ~wtE THEN <<IssueWorktree>> ELSE <<>>)
    \o (IF ~jE THEN <<IssueNoJunction>>
        ELSE IF ~jV THEN <<IssueBadJunction>> ELSE <<>>)
    \o (IF ~bE THEN <<IssueBinaries>> ELSE <<>>)
    \o (IF st = "enabled" THEN <<IssueStock>> ELSE <<>>)

\* The issues appended while the checks are made: the junction is verified
\* only when it exists, the binaries are looked for only in a worktree that
\* exists.
Issues(wtE, jE, jV, bE, st) ==
    (IF ~wtE THEN <<IssueWorktree>> ELSE <<>>)
    \o (IF ~jE THEN <<IssueNoJunction>>
        ELSE IF ~jV THEN <<IssueBadJunction>> ELSE <<>>)
    \o (IF wtE /\ ~bE THEN <<IssueBinaries>> ELSE <<>>)
    \o (IF st = "enabled" THEN <<IssueStock>> ELSE <<>>)

\* A detector that does not look at the stock plugin for completeness.
IsSetupCompleteWhateverStock(wtE, jE, jV, bE, st) ==
    wtE /\ jE /\ jV /\ bE

IsSetupComplete(wtE, jE, jV, bE, st) ==
    wtE /\ jE /\ jV /\ bE /\ st # "enabled"

\* A detector that takes a missing worktree alone for "never set up".
IsNeverSetUpNoWorktree(wtE, jE) == ~wtE

IsNeverSetUp(wtE, jE) == ~wtE /\ ~jE

IsBroken(never, complete) == IF never THEN FALSE ELSE ~complete

Classified(wtE, jE, jV, bE, st) ==
    [WorktreeExists |-> wtE, JunctionExists |-> jE, JunctionValid |-> jV,
     BinariesExist |-> bE, StockPluginStatus |-> st,
     Issues |-> Issues(wtE, jE, jV, bE, st),
     IsSetupComplete |-> IsSetupComplete(wtE, jE, jV, bE, st),
     IsNeverSetUp |-> IsNeverSetUp(wtE, jE),
     IsBroken |-> IsBroken(IsNeverSetUp(wtE, jE),
                           IsSetupComplete(wtE, jE, jV, bE, st))]

detectEngineSetupStatus(w, e) ==
    Classified(WorktreeExists(w, VersionOf(e)),
               JunctionExists(w, e),
               IF JunctionExists(w, e) THEN VerifyJunction(w, e, VersionOf(e))
               ELSE FALSE,
               IF WorktreeExists(w, VersionOf(e))
               THEN checkBinariesExist(w, VersionOf(e)) ELSE FALSE,
               GetStockPluginStatus(w, e))

Status(e) == detectEngineSetupStatus(World, e)

Class(s) ==
    IF s.IsSetupComplete THEN "Complete"
    ELSE IF s.IsBroken THEN "Broken"
    ELSE IF s.IsNeverSetUp THEN "NeverSetUp"
    ELSE "Incomplete"

\* FindEnginesWithIssues: the engines whose status has a non-empty issue list.
FindEnginesWithIssues(w) ==
    {e \in Engines : Len(detectEngineSetupStatus(w, e).Issues) > 0}

\* FindEnginesNeedingSetup: the engines whose setup is not complete.
FindEnginesNeedingSetup(w) ==
    {e \in Engines : ~detectEngineSetupStatus(w, e).IsSetupComplete}

RangeOf(s) == {s[i] : i \in 1..Len(s)}

\* ------------------------------------------------------- steps of a handler
\* A handler run: the world so far, the component calls made in order, and
\* the call that returned an error ("none": no error so far).
Start(w) == [w |-> w, trace |-> <<>>, err |-> "none"]

Ok(w) == [w |-> w, ok |-> TRUE]
Failed(w) == [w |-> w, ok |-> FALSE]

\* git clone <url> repo-origin: nothing to do when the clone is there.
CloneOrigin(w, fail) ==
    IF IsOriginCloned(w) THEN Ok(w)
    ELSE IF fail = "clone" THEN Failed(w)
    ELSE Ok([w EXCEPT !.origin = TRUE, !.ref = w.up])

\* git fetch --all --prune in repo-origin.
FetchAll(w, fail) ==
    IF ~w.origin \/ fail = "fetch" THEN Failed(w)
    ELSE Ok([w EXCEPT !.ref = w.up])

\* git branch --force engine-<v> origin/<default>: git refuses to move a
\* branch that a worktree has checked out.
CreateEngineBranch(w, v, fail) ==
    IF ~w.origin \/ fail = "branch" \/ (w.wt[v] /\ w.branch[v] # NoBranch)
    THEN Failed(w)
    ELSE Ok([w EXCEPT !.branch[v] = w.ref, !.local[v] = FALSE])

\* git worktree add worktrees/UE_<v> engine-<v>: needs the clone, the branch
\* and a free path; the directory is then checked to exist.
CreateWorktree(w, v, fail) ==
    IF ~w.origin \/ w.branch[v] = NoBranch \/ w.wt[v] \/ fail = "worktree"
    THEN Failed(w)
    ELSE Ok([w EXCEPT !.wt[v] = TRUE, !.bin[v] = FALSE])

\* rmdir of the link path, unless JunctionExists says there is nothing.
RemoveJunction(w, e, fail) ==
    IF ~JunctionExists(w, e) THEN Ok(w)
    ELSE IF fail = "rmdir" THEN Failed(w)
    ELSE Ok([w EXCEPT !.link[e] = NoLink])

\* plugin.go CreateJunction: remove what JunctionExists sees, require the
\* worktree, refuse a path os.Stat still finds, then mklink /D.  mklink fails
\* on an occupied path (a dangling link passes the os.Stat check).  With
\* fail = "output" mklink creates the link and exits with 0, but its output
\* has none of the English success messages: the error is returned.
CreateJunction(w, e, v, fail) ==
    IF fail = "write" THEN Failed(w)
    ELSE LET r == RemoveJunction(w, e, fail) IN
         IF ~r.ok THEN Failed(w)
         ELSE IF ~r.w.wt[v] THEN Failed(r.w)
         ELSE IF StatFollows(r.w, e) THEN Failed(r.w)
         ELSE IF r.w.link[e].kind # "none" \/ fail = "mklink" THEN Failed(r.w)
         ELSE IF fail = "output" THEN Failed([r.w EXCEPT !.link[e] = LinkTo(v)])
         ELSE Ok([r.w EXCEPT !.link[e] = LinkTo(v)])

\* RunUAT BuildPlugin on the worktree's GitSourceControl.uplugin, then the
\* binaries are copied to <worktree>/Binaries/Win64.
BuildForEngine(w, e, v, fail) ==
    IF ~w.wt[v] \/ fail = "build" THEN Failed(w)
    ELSE Ok([w EXCEPT !.bin[v] = TRUE])

\* A variant of DisableStockPlugin that removes the manifest.
DisableStockPluginRemoves(w, e, fail) ==
    IF ~w.stockOn[e] \/ fail = "rename" THEN Failed(w)
    ELSE Ok([w EXCEPT !.stockOn[e] = FALSE])

\* os.Rename(GitSourceControl.uplugin, GitSourceControl.uplugin.disabled).
DisableStockPlugin(w, e, fail) ==
    IF ~w.stockOn[e] \/ fail = "rename" THEN Failed(w)
    ELSE Ok([w EXCEPT !.stockOn[e] = FALSE, !.stockOff[e] = TRUE])

\* A variant of EnableStockPlugin that copies the disabled manifest back.
EnableStockPluginCopies(w, e, fail) ==
    IF ~w.stockOff[e] THEN Failed(w)
    ELSE IF fail = "rename" THEN Failed(w)
    ELSE Ok([w EXCEPT !.stockOn[e] = TRUE])

\* os.Rename(GitSourceControl.uplugin.disabled, GitSourceControl.uplugin),
\* after a check that the disabled file is there.
EnableStockPlugin(w, e, fail) ==
    IF ~w.stockOff[e] THEN Failed(w)
    ELSE IF fail = "rename" THEN Failed(w)
    ELSE Ok([w EXCEPT !.stockOn[e] = TRUE, !.stockOff[e] = FALSE])

\* config.AddEngine: appends, whatever the list holds.
AddEngine(cfg, rec) == Append(cfg, rec)

EngineRecord(e, disabledByTool) ==
    [EnginePath |-> e, EngineVersion |-> VersionOf(e),
     StockPluginDisabledByTool |-> disabledByTool]

\* ------------------------------------------------------ git: update info
\* GetUpdateInfo: HEAD of the worktree (it has engine-<v> checked out), the
\* remote-tracking ref, and rev-list --count <local>..origin/<default>.
UpdateInfoAvailable(w, v, fail) ==
    /\ WorktreeExists(w, v)
    /\ w.origin
    /\ w.branch[v] # NoBranch
    /\ fail # "revparse"

CommitsAhead(w, v) ==
    IF w.ref > w.branch[v] THEN w.ref - w.branch[v] ELSE 0

\* A fast-forward to origin/<default> is impossible when the branch has
\* commits of its own and the remote-tracking ref has moved on.
Diverged(w, v) == w.local[v] /\ w.ref > w.branch[v]

\* A merge that moves the branch by one commit only.
UpdateWorktreeOneCommit(w, v, fail) ==
    IF ~WorktreeExists(w, v) \/ ~w.origin \/ w.branch[v] = NoBranch
       \/ fail = "merge" \/ Diverged(w, v)
    THEN Failed(w)
    ELSE Ok([w EXCEPT !.branch[v] = IF w.ref > @ THEN @ + 1 ELSE @])

\* A merge that skips a diverged branch without an error.
UpdateWorktreeSkipsDiverged(w, v, fail) ==
    IF ~WorktreeExists(w, v) \/ ~w.origin \/ w.branch[v] = NoBranch
       \/ fail = "merge"
    THEN Failed(w)
    ELSE IF Diverged(w, v) THEN Ok(w)
    ELSE Ok([w EXCEPT !.branch[v] = IF w.ref > @ THEN w.ref ELSE @])

\* git merge --ff-only origin/<default> in the worktree.
UpdateWorktree(w, v, fail) ==
    IF ~WorktreeExists(w, v) \/ ~w.origin \/ w.branch[v] = NoBranch
       \/ fail = "merge" \/ Diverged(w, v)
    THEN Failed(w)
    ELSE Ok([w EXCEPT !.branch[v] = IF w.ref > @ THEN w.ref ELSE @])

\* The calls RemoveWorktree makes to remove the directory, in its order.
Tiers == <<"worktree remove", "worktree remove --force", "RemoveAll">>

\* What a run of RemoveWorktree can meet: for each call, whether it fails.
TierOutcomes == [remove : BOOLEAN, force : BOOLEAN, rmAll : BOOLEAN,
                 branchD : BOOLEAN]

\* A variant of TiersTried that gives up when the forced removal fails.
TiersTriedNoFallback(w, o) ==
    LET t1 == [call |-> Tiers[1], ok |-> w.origin /\ ~o.remove]
        t2 == [call |-> Tiers[2], ok |-> w.origin /\ ~o.force] IN
    IF t1.ok THEN <<t1>> ELSE <<t1, t2>>

\* The calls up to the first of the tiers that succeeds, each with its
\* result.  The two git calls run in repo-origin and fail without it.
TiersTried(w, o) ==
    LET t1 == [call |-> Tiers[1], ok |-> w.origin /\ ~o.remove]
        t2 == [call |-> Tiers[2], ok |-> w.origin /\ ~o.force]
        t3 == [call |-> Tiers[3], ok |-> ~o.rmAll] IN
    IF t1.ok THEN <<t1>> ELSE IF t2.ok THEN <<t1, t2>> ELSE <<t1, t2, t3>>

\* git worktree remove, then --force, then os.RemoveAll of the directory:
\* an error only when all three fail.  git branch -D engine-<v> follows; its
\* failure is a warning.
RemoveWorktreeTiers(w, v, o) ==
    IF ~WorktreeExists(w, v) THEN [ok |-> TRUE, w |-> w, calls |-> <<>>]
    ELSE LET tried == TiersTried(w, o)
             bd == [call |-> "branch -D", ok |-> w.origin /\ ~o.branchD] IN
         IF ~tried[Len(tried)].ok
         THEN [ok |-> FALSE, w |-> w, calls |-> tried]
         ELSE [ok |-> TRUE,
               w |-> [w EXCEPT !.wt[v] = FALSE, !.bin[v] = FALSE,
                               !.branch[v] = IF bd.ok THEN NoBranch ELSE @,
                               !.local[v] = IF bd.ok THEN FALSE ELSE @],
               calls |-> Append(tried, bd)]

\* RemoveWorktree as the flows meet it: "rmworktree" is the three tiers
\* failing, "branchD" the deletion of the branch failing.
RemoveWorktree(w, v, fail) ==
    LET r == RemoveWorktreeTiers(w, v,
                 [remove |-> fail = "rmworktree", force |-> fail = "rmworktree",
                  rmAll |-> fail = "rmworktree", branchD |-> fail = "branchD"]) IN
    [w |-> r.w, ok |-> r.ok]

\* os.RemoveAll(repo-origin): the branches and the remote-tracking ref go
\* with the clone.
RemoveOrigin(w, fail) ==
    IF ~IsOriginCloned(w) THEN Ok(w)
    ELSE IF fail = "rmorigin" THEN Failed(w)
    ELSE Ok([w EXCEPT !.origin = FALSE, !.ref = 0,
                      !.branch = [v \in Versions |-> NoBranch],
                      !.local = [v \in Versions |-> FALSE]])

\* ---------------------------------------------------------------- handlers
\* setupEngine, after the build: on a collision the user is asked; a failed
\* rename is a warning.  Then the engine is added to the configuration.
recordEngine(w, e, x) ==
    LET ask == CheckPluginCollision(w, e) /\ x.confirm
        d == IF ask THEN DisableStockPlugin(w, e, x.fail) ELSE Failed(w)
    IN  [w |-> [d.w EXCEPT !.cfg = AddEngine(@, EngineRecord(e, d.ok))],
         ok |-> TRUE,
         calls |-> (IF ask THEN <<"DisableStockPlugin">> ELSE <<>>)
                   \o <<"AddEngine">>]

Called(name, r) == [w |-> r.w, ok |-> r.ok, calls |-> <<name>>]

\* A call whose error the handler drops.
Ignored(name, r) == [w |-> r.w, ok |-> TRUE, calls |-> <<name>>]

WarnOrigin == "Warning: Failed to remove origin repository"

\* runUninstallForEngine, after the engine is uninstalled: when no engine
\* with a complete setup remains, the origin is removed; a failure is a
\* warning.
removeOriginIfLast(w, x, r) ==
    IF \E e \in Engines : detectEngineSetupStatus(w, e).IsSetupComplete
    THEN [w |-> w, ok |-> TRUE, calls |-> <<>>]
    ELSE [w |-> r.w, ok |-> TRUE,
          calls |-> <<"RemoveOrigin">> \o (IF r.ok THEN <<>> ELSE <<WarnOrigin>>)]

\* One call of a handler on engine e, under the inputs x of the run.
Call(name, w, e, x) ==
    LET v == VersionOf(e) IN
    CASE name = "CloneOrigin" -> Called(name, CloneOrigin(w, x.fail))
      [] name = "CreateEngineBranch" -> Called(name, CreateEngineBranch(w, v, x.fail))
      [] name = "CreateWorktree" -> Called(name, CreateWorktree(w, v, x.fail))
      [] name = "CreateJunction" -> Called(name, CreateJunction(w, e, v, x.fail))
      [] name = "BuildForEngine" -> Called(name, BuildForEngine(w, e, v, x.fail))
      [] name = "DisableStockPlugin" -> Called(name, DisableStockPlugin(w, e, x.fail))
      [] name = "GetUpdateInfo" ->
           Called(name, IF UpdateInfoAvailable(w, v, x.fail) THEN Ok(w) ELSE Failed(w))
      [] name = "UpdateWorktree" -> Called(name, UpdateWorktree(w, v, x.fail))
      [] name = "recordEngine" -> recordEngine(w, e, x)
      [] name = "RemoveJunction" -> Called(name, RemoveJunction(w, e, x.fail))
      [] name = "RemoveJunction (error dropped)" ->
           Ignored("RemoveJunction", RemoveJunction(w, e, x.fail))
      [] name = "RemoveWorktree" -> Called(name, RemoveWorktree(w, v, x.fail))
      [] name = "EnableStockPlugin" -> Called(name, EnableStockPlugin(w, e, x.fail))
      [] name = "removeOriginIfLast" ->
           removeOriginIfLast(w, x, RemoveOrigin(w, x.fail))

\* The calls of a handler in order; the handler returns on the first error.
Extend(s, name, r) ==
    [w |-> r.w, trace |-> s.trace \o r.calls,
     err |-> IF r.ok THEN "none" ELSE name]

\* p is the run so far, evaluated once.
Advance(s, name, e, x) ==
    CHOOSE out \in {IF p.err # "none" THEN p
                    ELSE Extend(p, name, Call(name, p.w, e, x)) : p \in {s}} : TRUE

RunSteps(steps, w, e, x) ==
    LET run[i \in 0..Len(steps)] ==
            IF i = 0 THEN Start(w) ELSE Advance(run[i - 1], steps[i], e, x)
    IN  run[Len(steps)]

\* What a handler run reports for one engine: the error it returned and the
\* calls it made.
NotRun == [err |-> "none", trace |-> <<>>]

Outcome(s) == [w |-> s.w, rep |-> [err |-> s.err, trace |-> s.trace]]

\* menu.go runSetupForEngine ("Install Setup" of the edit menu).
runSetupForEngine(w, e, x) ==
    Outcome(RunSteps((IF IsOriginCloned(w) THEN <<>> ELSE <<"CloneOrigin">>)
                     \o <<"CreateWorktree", "BuildForEngine", "CreateJunction",
                          "DisableStockPlugin">>,
                     w, e, x))

\* A setup that forgets the build.
setupEngineWithoutBuild(w, e, x) ==
    Outcome(RunSteps(<<"CreateEngineBranch", "CreateWorktree", "CreateJunction",
                       "recordEngine">>,
                     w, e, x))

\* menu.go setupEngine (first-time setup, one engine).
setupEngine(w, e, x) ==
    Outcome(RunSteps(<<"CreateEngineBranch", "CreateWorktree", "CreateJunction",
                       "BuildForEngine", "recordEngine">>,
                     w, e, x))

\* An update that merges and rebuilds whatever the update info counts.
runUpdateForEngineAlways(w, e, x) ==
    Outcome(RunSteps(<<"GetUpdateInfo", "UpdateWorktree", "BuildForEngine">>,
                     w, e, x))

\* menu.go runUpdateForEngine ("Update Setup" of the edit menu): nothing
\* more is done when the update info counts no commit.
runUpdateForEngine(w, e, x) ==
    Outcome(RunSteps(<<"GetUpdateInfo">>
                     \o (IF UpdateInfoAvailable(w, VersionOf(e), x.fail)
                            /\ CommitsAhead(w, VersionOf(e)) = 0
                         THEN <<>>
                         ELSE <<"UpdateWorktree", "BuildForEngine">>),
                     w, e, x))

\* A repair that recreates the junction whatever the status.
repairStepsAlwaysRelink(status) ==
    (IF ~status.WorktreeExists THEN <<"CreateWorktree">> ELSE <<>>)
    \o (IF ~status.BinariesExist THEN <<"BuildForEngine">> ELSE <<>>)
    \o <<"RemoveJunction (error dropped)", "CreateJunction">>
    \o (IF status.StockPluginStatus = "enabled"
        THEN <<"DisableStockPlugin">> ELSE <<>>)

\* A repair that rebuilds whatever the status.
repairStepsAlwaysBuild(status) ==
    (IF ~status.WorktreeExists THEN <<"CreateWorktree">> ELSE <<>>)
    \o <<"BuildForEngine">>
    \o (IF ~status.JunctionExists \/ ~status.JunctionValid
        THEN <<"RemoveJunction (error dropped)", "CreateJunction">> ELSE <<>>)
    \o (IF status.StockPluginStatus = "enabled"
        THEN <<"DisableStockPlugin">> ELSE <<>>)

\* The remediations of a repair, chosen from the status detected at its
\* start.
repairSteps(status) ==
    (IF ~status.WorktreeExists THEN <<"CreateWorktree">> ELSE <<>>)
    \o (IF ~status.BinariesExist THEN <<"BuildForEngine">> ELSE <<>>)
    \o (IF ~status.JunctionExists \/ ~status.JunctionValid
        THEN <<"RemoveJunction (error dropped)", "CreateJunction">> ELSE <<>>)
    \o (IF status.StockPluginStatus = "enabled"
        THEN <<"DisableStockPlugin">> ELSE <<>>)

\* menu.go runRepairForEngine ("Repair Setup" of the edit menu).
runRepairForEngine(w, e, x) ==
    Outcome(RunSteps(repairSteps(detectEngineSetupStatus(w, e)), w, e, x))

\* menu.go runUninstallForEngine ("Uninstall Setup" of the edit menu).
runUninstallForEngine(w, e, x) ==
    Outcome(RunSteps(<<"RemoveJunction", "RemoveWorktree", "EnableStockPlugin",
                       "removeOriginIfLast">>,
                     w, e, x))

NoReports == [e \in Engines |-> NotRun]

\* runFirstTimeSetup, step 5: setupEngine on each selected engine in
\* discovery order; a failed engine is reported and the loop continues.
Reported(st, e, r) == [w |-> r.w, res |-> [st.res EXCEPT ![e] = r.rep]]

setupNext(st, e, x) == Reported(st, e, setupEngine(st.w, e, x))

\* A variant of setupSelected that stops at the first engine that fails.
setupSelectedUntilFailure(w, sel, fx) ==
    LET upTo[e \in 0..NumEngines] ==
            IF e = 0 THEN [w |-> w, res |-> NoReports]
            ELSE IF e \notin sel THEN upTo[e - 1]
            ELSE IF \E d \in 1..(e - 1) : upTo[e - 1].res[d].err # "none"
            THEN upTo[e - 1]
            ELSE setupNext(upTo[e - 1], e, fx[e])
    IN  upTo[NumEngines]

setupSelected(w, sel, fx) ==
    LET upTo[e \in 0..NumEngines] ==
            IF e = 0 THEN [w |-> w, res |-> NoReports]
            ELSE IF e \notin sel THEN upTo[e - 1]
            ELSE setupNext(upTo[e - 1], e, fx[e])
    IN  upTo[NumEngines]

\* menu.go repairBrokenSetup, the remediations of one engine, chosen from
\* the status detected before the loop.
repairBrokenSteps(status) ==
    (IF ~status.WorktreeExists THEN <<"CreateWorktree">> ELSE <<>>)
    \o (IF ~status.JunctionExists \/ ~status.JunctionValid
        THEN <<"CreateJunction">> ELSE <<>>)
    \o (IF ~status.BinariesExist THEN <<"BuildForEngine">> ELSE <<>>)
    \o (IF status.StockPluginStatus = "enabled"
        THEN <<"DisableStockPlugin">> ELSE <<>>)

\* menu.go repairBrokenSetup, once the user has confirmed: each engine that
\* needs a setup is repaired in turn; a failed engine is reported and the
\* loop continues.
repairBrokenSetup(w, fx) ==
    LET needingSetup == FindEnginesNeedingSetup(w)
        upTo[e \in 0..NumEngines] ==
            IF e = 0 THEN [w |-> w, res |-> NoReports]
            ELSE IF e \notin needingSetup THEN upTo[e - 1]
            ELSE Reported(upTo[e - 1], e,
                     Outcome(RunSteps(
                         repairBrokenSteps(detectEngineSetupStatus(w, e)),
                         upTo[e - 1].w, e, fx[e])))
    IN  upTo[NumEngines]

\* selectEngines: every engine whose setup is not complete is offered.
Offered(w) == {e \in Engines : ~detectEngineSetupStatus(w, e).IsSetupComplete}

\* runFirstTimeSetup, step 6: the configuration is written to config.json;
\* when that fails the file keeps what it held.
Save(w, g, st) ==
    IF g = "save"
    THEN [w |-> [st.w EXCEPT !.cfg = w.cfg], err |-> "save", res |-> st.res]
    ELSE [w |-> [st.w EXCEPT !.cfgFile = TRUE], err |-> "none", res |-> st.res]

\* The configuration is loaded, or created when there is no file.
LoadOrCreate(w) == [w EXCEPT !.cfg = IF w.cfgFile THEN @ ELSE <<>>]

\* menu.go runFirstTimeSetup.  g names the step of the flow itself that
\* fails: "abort" (no admin rights, no git, nothing selected), "clone",
\* "defaultBranch", "save", or "none".
runFirstTimeSetup(w, g, sel, fx) ==
    IF g = "abort" \/ sel = {} THEN [w |-> w, err |-> "abort", res |-> NoReports]
    ELSE IF ~CloneOrigin(w, g).ok THEN [w |-> w, err |-> "clone", res |-> NoReports]
    ELSE IF g = "defaultBranch"
    THEN [w |-> CloneOrigin(w, g).w, err |-> "defaultBranch", res |-> NoReports]
    ELSE Save(w, g, setupSelected(LoadOrCreate(CloneOrigin(w, g).w), sel, fx))

\* menu.go isFirstRun: no config file, or no engine with a complete setup.
isFirstRun(w) ==
    \/ ~w.cfgFile
    \/ \A e \in Engines : ~detectEngineSetupStatus(w, e).IsSetupComplete

DataDirEmpty(w) == ~w.origin /\ \A v \in Versions : ~w.wt[v]

\* ------------------------------------------------------------------ inputs
EngineFails == {"none", "branch", "worktree", "mklink", "build", "rename"}

InstallFails ==
    {"none", "clone", "worktree", "write", "rmdir", "mklink", "build", "rename"}
UpdateFails == {"none", "revparse", "merge", "build"}
RepairFails == {"none", "worktree", "build", "rmdir", "mklink", "rename"}
\* The failure of git branch -D ("branchD") is a warning that leaves the
\* branch, as an uninstall after the directory was deleted does; the runs of
\* the edit menu do not draw it.
UninstallFails == {"none", "rmdir", "rmworktree", "rename", "rmorigin"}
Inputs(fails) == [fail : fails, confirm : BOOLEAN]
DefaultInput == [fail |-> "none", confirm |-> TRUE]

\* -------------------------------------------------------------------- Init
\* last: what the most recent run reported for engine last.e.
\* pre, preStock, empty: what the engine and the data directory were when
\* the run began; added: the run left one more record of the engine in the
\* saved configuration.
NoOp ==
    [op |-> "none", e |-> 0, flowErr |-> "none", err |-> "none", trace |-> <<>>,
     pre |-> "none", preStock |-> "none", empty |-> FALSE, added |-> FALSE]

Records(cfg, e) == Cardinality({i \in 1..Len(cfg) : cfg[i].EnginePath = e})

Ran(w, op, e, r, rep) ==
    [op |-> op, e |-> e, flowErr |-> r.err, err |-> rep.err, trace |-> rep.trace,
     pre |-> IF e \in Engines THEN Class(detectEngineSetupStatus(w, e))
             ELSE "none",
     preStock |-> IF e \in Engines THEN GetStockPluginStatus(w, e) ELSE "none",
     empty |-> DataDirEmpty(w),
     added |-> Records(r.w.cfg, e) > Records(w.cfg, e)]

Init ==
    /\ version = [e \in Engines |-> e]
    /\ originCloned = FALSE
    /\ remoteRef = 0
    /\ upstream = 0
    /\ branch = [v \in Versions |-> NoBranch]
    /\ worktree = [v \in Versions |-> FALSE]
    /\ binaries = [v \in Versions |-> FALSE]
    /\ localCommits = [v \in Versions |-> FALSE]
    /\ link = [e \in Engines |-> NoLink]
    /\ stockEnabled \in [Engines -> BOOLEAN]
    /\ stockDisabled = [e \in Engines |-> FALSE]
    /\ engines = <<>>
    /\ configExists = FALSE
    /\ last = NoOp
    /\ extCount = 0

\* ----------------------------------------------------------------- actions
\* Run: the first-time setup is what the program does while isFirstRun.
FirstTimeSetupAborted ==
    /\ isFirstRun(World)
    /\ \E g \in {"abort", "clone", "defaultBranch"} :
          \E r \in {runFirstTimeSetup(World, g, Offered(World),
                                     [e \in Engines |-> DefaultInput])} :
              /\ r.err # "none"
              /\ Store(r.w)
              /\ last' = Ran(World, "FirstTimeSetup", 0, r, NotRun)
    /\ UNCHANGED <<upstream, extCount, version>>

\* The inputs of a run: sel, the engines the user selects; bad, the
\* selected engines with a failing call, and fails, the call that fails;
\* declines, the engines whose collision prompt is answered no.
FirstTimeSetup ==
    /\ isFirstRun(World)
    /\ \E g \in {"none", "save"} :
       \E sel \in (SUBSET Offered(World)) \ {{}} :
       \E bad \in SUBSET sel :
       \E fails \in [bad -> EngineFails \ {"none"}] :
       \E declines \in SUBSET {e \in sel \ bad : CheckPluginCollision(World, e)} :
          /\ Cardinality(bad) + (IF g = "none" THEN 0 ELSE 1) <= MaxFailures
          /\ \A e \in bad : fails[e] = "rename" => CheckPluginCollision(World, e)
          /\ \E r \in {runFirstTimeSetup(World, g, sel,
                    [e \in Engines |->
                       [fail |-> IF e \in bad THEN fails[e] ELSE "none",
                        confirm |-> e \notin declines]])} :
                 /\ Len(r.w.cfg) <= MaxRecords
                 /\ Store(r.w)
                 /\ \E e \in sel :
                       last' = Ran(World, "FirstTimeSetup", e, r, r.res[e])
    /\ UNCHANGED <<upstream, extCount, version>>

\* runEngineEditOptions: the options offered follow the detected status.
EditInstall(e) ==
    /\ ~isFirstRun(World)
    /\ ~Status(e).IsSetupComplete
    /\ ~Status(e).IsBroken
    /\ \E x \in Inputs(InstallFails) :
          /\ x.confirm
          /\ x.fail = "clone" => ~originCloned
          /\ \E r \in {runSetupForEngine(World, e, x)} :
                 /\ Store(r.w)
                 /\ last' = Ran(World, "Install", e, [w |-> r.w, err |-> "none"], r.rep)
    /\ UNCHANGED <<upstream, extCount, version>>

EditUpdate(e) ==
    /\ ~isFirstRun(World)
    /\ Status(e).IsSetupComplete
    /\ \E x \in Inputs(UpdateFails) :
          /\ x.confirm
          /\ \E r \in {runUpdateForEngine(World, e, x)} :
                 /\ Store(r.w)
                 /\ last' = Ran(World, "Update", e, [w |-> r.w, err |-> "none"], r.rep)
    /\ UNCHANGED <<upstream, extCount, version>>

EditRepair(e) ==
    /\ ~isFirstRun(World)
    /\ ~Status(e).IsSetupComplete
    /\ Status(e).IsBroken
    /\ \E x \in Inputs(RepairFails) :
          /\ x.confirm
          /\ \E r \in {runRepairForEngine(World, e, x)} :
                 /\ Store(r.w)
                 /\ last' = Ran(World, "Repair", e, [w |-> r.w, err |-> "none"], r.rep)
    /\ UNCHANGED <<upstream, extCount, version>>

EditUninstall(e) ==
    /\ ~isFirstRun(World)
    /\ Status(e).IsSetupComplete \/ Status(e).IsBroken
    /\ \E x \in Inputs(UninstallFails) :
          /\ x.confirm
          /\ \E r \in {runUninstallForEngine(World, e, x)} :
                 /\ Store(r.w)
                 /\ last' = Ran(World, "Uninstall", e, [w |-> r.w, err |-> "none"], r.rep)
    /\ UNCHANGED <<upstream, extCount, version>>

\* ------------------------------------------------- changes from outside
External(w) ==
    /\ extCount < MaxExternal
    /\ extCount' = extCount + 1
    /\ Store(w)
    /\ last' = [NoOp EXCEPT !.op = "external"]
    /\ UNCHANGED <<upstream, version>>

\* The worktree directory is deleted, with the binaries in it.  Whether git
\* then still refuses the branch or the path is left to the failure input
\* of the next run.
ExternalRemoveWorktree(v) ==
    /\ worktree[v]
    /\ External([World EXCEPT !.wt[v] = FALSE, !.bin[v] = FALSE])

ExternalRemoveBinaries(v) ==
    /\ binaries[v]
    /\ External([World EXCEPT !.bin[v] = FALSE])

ExternalRemoveLink(e) ==
    /\ link[e].kind # "none"
    /\ External([World EXCEPT !.link[e] = NoLink])

\* The link is made to point somewhere else.
ExternalRepointLink(e) ==
    /\ link[e].kind = "link"
    /\ \E t \in 0..NumEngines :
          /\ t # link[e].to
          /\ External([World EXCEPT !.link[e] = LinkTo(t)])

\* Someone commits in the worktree: engine-<v> gets a commit of its own.
ExternalLocalCommit(v) ==
    /\ worktree[v] /\ originCloned /\ branch[v] # NoBranch
    /\ ~localCommits[v]
    /\ External([World EXCEPT !.local[v] = TRUE])

\* git fetch is run in repo-origin from outside the tool.
ExternalFetch ==
    /\ originCloned
    /\ remoteRef < upstream
    /\ remoteRef' = upstream
    /\ last' = [NoOp EXCEPT !.op = "external"]
    /\ UNCHANGED <<originCloned, upstream, branch, worktree, binaries,
                   localCommits, link, stockEnabled, stockDisabled, engines,
                   configExists, extCount, version>>

\* A commit is pushed to the remote's default branch.
RemoteCommit ==
    /\ upstream < MaxCommits
    /\ upstream' = upstream + 1
    /\ last' = [NoOp EXCEPT !.op = "external"]
    /\ UNCHANGED <<originCloned, remoteRef, branch, worktree, binaries,
                   localCommits, link, stockEnabled, stockDisabled, engines,
                   configExists, extCount, version>>

Next ==
    \/ FirstTimeSetupAborted
    \/ FirstTimeSetup
    \/ \E e \in Engines : EditInstall(e)
    \/ \E e \in Engines : EditUpdate(e)
    \/ \E v \in Versions : ExternalRemoveWorktree(v)
    \/ \E v \in Versions : ExternalRemoveBinaries(v)
    \/ \E e \in Engines : ExternalRemoveLink(e)
    \/ \E e \in Engines : ExternalRepointLink(e)
    \/ RemoteCommit

Spec == Init /\ [][Next]_vars

\* ------------------------------------------------------- the edit menu
\* The edit menu is reached once a first-time setup has left an engine
\* complete.  Its flows are followed from every state a first-time setup on
\* the initial data directory leaves, under changes from outside.
EmptyWorld(stock) ==
    [origin |-> FALSE, ref |-> 0, branch |-> [v \in Versions |-> NoBranch],
     wt |-> [v \in Versions |-> FALSE], bin |-> [v \in Versions |-> FALSE],
     local |-> [v \in Versions |-> FALSE], link |-> [e \in Engines |-> NoLink],
     stockOn |-> stock, stockOff |-> [e \in Engines |-> FALSE],
     cfg |-> <<>>, cfgFile |-> FALSE, up |-> 0]

InitEdit ==
    /\ version = [e \in Engines |-> e]
    /\ \E stock \in [Engines -> BOOLEAN] :
       \E sel \in (SUBSET Engines) \ {{}} :
       \E bad \in SUBSET sel :
       \E fails \in [bad -> EngineFails \ {"none"}] :
       \E declines \in SUBSET {e \in sel \ bad : stock[e]} :
          /\ Cardinality(bad) <= MaxFailures
          /\ \A e \in bad : fails[e] = "rename" => stock[e]
          /\ \E r \in {runFirstTimeSetup(EmptyWorld(stock), "none", sel,
                    [e \in Engines |->
                       [fail |-> IF e \in bad THEN fails[e] ELSE "none",
                        confirm |-> e \notin declines]])} :
                 /\ originCloned = r.w.origin
                 /\ remoteRef = r.w.ref
                 /\ branch = r.w.branch
                 /\ worktree = r.w.wt
                 /\ binaries = r.w.bin
                 /\ localCommits = r.w.local
                 /\ link = r.w.link
                 /\ stockEnabled = r.w.stockOn
                 /\ stockDisabled = r.w.stockOff
                 /\ engines = r.w.cfg
                 /\ configExists = r.w.cfgFile
    /\ upstream = 0
    /\ last = NoOp
    /\ extCount = 0

NextEdit ==
    \/ \E e \in Engines : EditInstall(e)
    \/ \E e \in Engines : EditUpdate(e)
    \/ \E e \in Engines : EditRepair(e)
    \/ \E e \in Engines : EditUninstall(e)
    \/ \E v \in Versions : ExternalRemoveWorktree(v)
    \/ \E v \in Versions : ExternalRemoveBinaries(v)
    \/ \E e \in Engines : ExternalRemoveLink(e)
    \/ \E e \in Engines : ExternalRepointLink(e)
    \/ \E v \in Versions : ExternalLocalCommit(v)
    \/ ExternalFetch
    \/ RemoteCommit

SpecEdit == InitEdit /\ [][NextEdit]_vars

\* ------------------------------------------------- detection on any disk
\* What is on disk is not the program's to decide: the detection is also
\* run on every combination of worktrees, binaries, links and stock plugin.
StockStates == {"enabled", "disabled", "not_found"}

InitDetect ==
    /\ version = [e \in Engines |-> e]
    /\ originCloned = TRUE
    /\ remoteRef = 0
    /\ upstream = 0
    /\ branch = [v \in Versions |-> 0]
    /\ worktree \in [Versions -> BOOLEAN]
    /\ binaries \in [Versions -> BOOLEAN]
    /\ \A v \in Versions : binaries[v] => worktree[v]
    /\ localCommits = [v \in Versions |-> FALSE]
    /\ link \in [Engines -> LinkVals]
    /\ \E st \in [Engines -> StockStates] :
          /\ stockEnabled = [e \in Engines |-> st[e] = "enabled"]
          /\ stockDisabled = [e \in Engines |-> st[e] = "disabled"]
    /\ engines = <<>>
    /\ configExists = FALSE
    /\ last = NoOp
    /\ extCount = 0

\* DetectSetupStatus: the status of an engine is derived and shown.
Detect(e) ==
    /\ last' = [NoOp EXCEPT !.op = "detect", !.e = e,
                            !.pre = Class(Status(e)),
                            !.preStock = GetStockPluginStatus(World, e)]
    /\ UNCHANGED <<originCloned, remoteRef, upstream, branch, worktree, binaries,
                   localCommits, link, stockEnabled, stockDisabled, engines,
                   configExists, extCount, version>>

NextDetect == \E e \in Engines : Detect(e)

SpecDetect == InitDetect /\ [][NextDetect]_vars

\* ------------------------------------------------- repair on any disk
\* runRepairForEngine detects the status again when it starts: what the menu
\* showed may be out of date.  The repair is also run on every disk state.
Repair(e) ==
    /\ \E x \in Inputs(RepairFails) :
          /\ x.confirm
          /\ \E r \in {runRepairForEngine(World, e, x)} :
                 /\ Store(r.w)
                 /\ last' = Ran(World, "Repair", e, [w |-> r.w, err |-> "none"], r.rep)
    /\ UNCHANGED <<upstream, extCount, version>>

NextRepair == \E e \in Engines : Repair(e)

SpecRepair == InitDetect /\ [][NextRepair]_vars

\* ---------------------------------------------- uninstall on any disk
\* With more engines than the model has, the edit menu is open whatever the
\* state of these engines: the uninstall is also run on every disk state in
\* which the menu offers it.
Uninstall(e) ==
    /\ Status(e).IsSetupComplete \/ Status(e).IsBroken
    /\ \E x \in Inputs(UninstallFails) :
          /\ x.confirm
          /\ \E r \in {runUninstallForEngine(World, e, x)} :
                 /\ Store(r.w)
                 /\ last' = Ran(World, "Uninstall", e, [w |-> r.w, err |-> "none"], r.rep)
    /\ UNCHANGED <<upstream, extCount, version>>

NextUninstall == \E e \in Engines : Uninstall(e)

SpecUninstall == InitDetect /\ [][NextUninstall]_vars

\* ------------------------------------------------- the junction alone
\* CreateJunction applied to the link path of an engine on any disk state.
\* The write-access check is not failed here: it comes before everything
\* else in every variant of the function.
JunctionFails == {"none", "rmdir", "mklink", "output"}

Junction(e) ==
    /\ \E fail \in JunctionFails :
          \E r \in {CreateJunction(World, e, VersionOf(e), fail)} :
              /\ Store(r.w)
              /\ last' = Ran(World, "CreateJunction", e, [w |-> r.w, err |-> "none"],
                             [err |-> IF r.ok THEN "none" ELSE "CreateJunction",
                              trace |-> <<"CreateJunction">>])
    /\ UNCHANGED <<upstream, extCount, version>>

NextJunction == \E e \in Engines : Junction(e)

SpecJunction == InitDetect /\ [][NextJunction]_vars

\* --------------------------------------------- the stock plugin alone
\* The two renames of the stock plugin's manifest, on every combination of
\* the two manifest files.  Both files are there when the engine has been
\* verified or updated after the plugin was disabled: the launcher restores
\* GitSourceControl.uplugin and leaves GitSourceControl.uplugin.disabled.
StockFiles(w, e) ==
    IF w.stockOn[e] /\ w.stockOff[e] THEN "both" ELSE GetStockPluginStatus(w, e)

InitStock ==
    /\ version = [e \in Engines |-> e]
    /\ originCloned = FALSE
    /\ remoteRef = 0
    /\ upstream = 0
    /\ branch = [v \in Versions |-> NoBranch]
    /\ worktree = [v \in Versions |-> FALSE]
    /\ binaries = [v \in Versions |-> FALSE]
    /\ localCommits = [v \in Versions |-> FALSE]
    /\ link = [e \in Engines |-> NoLink]
    /\ stockEnabled \in [Engines -> BOOLEAN]
    /\ stockDisabled \in [Engines -> BOOLEAN]
    /\ engines = <<>>
    /\ configExists = FALSE
    /\ last = NoOp
    /\ extCount = 0

\* last.trace holds the call and, when the call before it was on the same
\* engine and succeeded, that call before it; last.pre is the manifest files
\* before the first call of last.trace, last.preStock before the last.
StockRan(name, e, r) ==
    LET chained == /\ last.op \in {"DisableStockPlugin", "EnableStockPlugin"}
                   /\ last.e = e /\ last.err = "none" IN
    [NoOp EXCEPT !.op = name, !.e = e,
                 !.err = IF r.ok THEN "none" ELSE name,
                 !.trace = IF chained THEN <<last.op, name>> ELSE <<name>>,
                 !.pre = IF chained THEN last.preStock ELSE StockFiles(World, e),
                 !.preStock = StockFiles(World, e)]

Disable(e) ==
    /\ \E fail \in {"none", "rename"} :
          \E r \in {DisableStockPlugin(World, e, fail)} :
              /\ Store(r.w)
              /\ last' = StockRan("DisableStockPlugin", e, r)
    /\ UNCHANGED <<upstream, extCount, version>>

Enable(e) ==
    /\ \E fail \in {"none", "rename"} :
          \E r \in {EnableStockPlugin(World, e, fail)} :
              /\ Store(r.w)
              /\ last' = StockRan("EnableStockPlugin", e, r)
    /\ UNCHANGED <<upstream, extCount, version>>

NextStock ==
    \/ \E e \in Engines : Disable(e)
    \/ \E e \in Engines : Enable(e)

SpecStock == InitStock /\ [][NextStock]_vars

\* ------------------------------------------- the worktree removal alone
\* RemoveWorktree on every combination of origin, worktrees and binaries,
\* with every combination of its calls failing.
InitWorktree ==
    /\ version = [e \in Engines |-> e]
    /\ originCloned \in BOOLEAN
    /\ remoteRef = 0
    /\ upstream = 0
    /\ worktree \in [Versions -> BOOLEAN]
    /\ branch = [v \in Versions |-> IF originCloned /\ worktree[v]
                                     THEN 0 ELSE NoBranch]
    /\ binaries \in [Versions -> BOOLEAN]
    /\ \A v \in Versions : binaries[v] => worktree[v]
    /\ localCommits = [v \in Versions |-> FALSE]
    /\ link = [e \in Engines |-> NoLink]
    /\ stockEnabled = [e \in Engines |-> FALSE]
    /\ stockDisabled = [e \in Engines |-> FALSE]
    /\ engines = <<>>
    /\ configExists = FALSE
    /\ last = NoOp
    /\ extCount = 0

\* last.trace holds the calls made, each with its result; last.pre whether
\* the worktree was there.
RemoveWt(v) ==
    /\ \E o \in TierOutcomes :
          \E r \in {RemoveWorktreeTiers(World, v, o)} :
              /\ Store(r.w)
              /\ last' = [NoOp EXCEPT
                             !.op = "RemoveWorktree", !.e = v,
                             !.err = IF r.ok THEN "none" ELSE "RemoveWorktree",
                             !.trace = r.calls,
                             !.pre = IF WorktreeExists(World, v)
                                     THEN "present" ELSE "absent"]
    /\ UNCHANGED <<upstream, extCount, version>>

NextWorktree == \E v \in Versions : RemoveWt(v)

SpecWorktree == InitWorktree /\ [][NextWorktree]_vars

\* ------------------------------------------------- version comparison
\* A version string is the sequence of its characters.
DigitChars == <<"0", "1", "2", "3", "4", "5", "6", "7", "8", "9">>

IsDigit(c) == \E i \in 1..10 : DigitChars[i] = c

DigitOf(c) == (CHOOSE i \in 1..10 : DigitChars[i] = c) - 1

\* The byte of a character of a version string: the dot, a digit, or a
\* letter of "unknown".
ByteOf(c) ==
    CASE c = "." -> 46
      [] c = "k" -> 107
      [] c = "n" -> 110
      [] c = "o" -> 111
      [] c = "u" -> 117
      [] c = "w" -> 119
      [] OTHER -> 48 + DigitOf(c)

\* The %d of fmt.Sprintf, for n >= 0.
RECURSIVE Itoa(_)
Itoa(n) ==
    IF n < 10 THEN <<DigitChars[n + 1]>>
    ELSE Append(Itoa(n \div 10), DigitChars[(n % 10) + 1])

\* extractVersion's fmt.Sprintf("%d.%d", MajorVersion, MinorVersion); the
\* directory name UE_<N>.<M> gives the same string.
FormatVersion(n, m) == Itoa(n) \o <<".">> \o Itoa(m)

\* strings.Split(s, "."): the pieces between the dots.
RECURSIVE Split(_)
Split(s) ==
    IF \A i \in 1..Len(s) : s[i] # "." THEN <<s>>
    ELSE LET d == CHOOSE i \in 1..Len(s) :
                     s[i] = "." /\ \A j \in 1..(i - 1) : s[j] # "." IN
         <<SubSeq(s, 1, d - 1)>> \o Split(SubSeq(s, d + 1, Len(s)))

\* strings.Compare: byte by byte, a proper prefix is the smaller.
RECURSIVE StringsCompare(_, _)
StringsCompare(a, b) ==
    IF a = <<>> /\ b = <<>> THEN 0
    ELSE IF a = <<>> THEN -1
    ELSE IF b = <<>> THEN 1
    ELSE IF ByteOf(a[1]) < ByteOf(b[1]) THEN -1
    ELSE IF ByteOf(a[1]) > ByteOf(b[1]) THEN 1
    ELSE StringsCompare(Tail(a), Tail(b))

\* The largest int (64 bits), in decimal: 2^63 - 1.
MaxInt64 ==
    <<"9", "2", "2", "3", "3", "7", "2", "0", "3", "6", "8", "5", "4", "7",
      "7", "5", "8", "0", "7">>

RECURSIVE StripZeros(_)
StripZeros(s) ==
    IF Len(s) > 1 /\ s[1] = "0" THEN StripZeros(Tail(s)) ELSE s

\* A string of digits whose value does not fit an int: longer than MaxInt64
\* without its leading zeros, or as long and after it.
OutOfRange(s) ==
    LET t == StripZeros(s) IN
    \/ Len(t) > Len(MaxInt64)
    \/ Len(t) = Len(MaxInt64) /\ StringsCompare(t, MaxInt64) > 0

RECURSIVE AtoiDigits(_)
AtoiDigits(s) ==
    IF s = <<>> THEN 0
    ELSE 10 * AtoiDigits(SubSeq(s, 1, Len(s) - 1)) + DigitOf(s[Len(s)])

\* strconv.Atoi of an unsigned string: an error on an empty string, on a
\* character that is no digit and on a value out of the range of int.
Atoi(s) ==
    IF s = <<>> \/ \E i \in 1..Len(s) : ~IsDigit(s[i])
    THEN [n |-> 0, err |-> TRUE]
    ELSE IF OutOfRange(s) THEN [n |-> 0, err |-> TRUE]
    ELSE [n |-> AtoiDigits(s), err |-> FALSE]

\* A variant of compareVersions that compares the strings.
compareVersionsAsStrings(v1, v2) == StringsCompare(v1, v2)

\* A variant of the loop of compareVersions in which the version that runs
\* out of parts first is the lower one.
RECURSIVE comparePartsShorterLower(_, _, _)
comparePartsShorterLower(parts1, parts2, i) ==
    IF i > Len(parts1) /\ i > Len(parts2) THEN 0
    ELSE IF i > Len(parts1) THEN -1
    ELSE IF i > Len(parts2) THEN 1
    ELSE LET a1 == Atoi(parts1[i])
             a2 == Atoi(parts2[i]) IN
         IF a1.err \/ a2.err THEN StringsCompare(parts1[i], parts2[i])
         ELSE IF a1.n < a2.n THEN -1
         ELSE IF a1.n > a2.n THEN 1
         ELSE comparePartsShorterLower(parts1, parts2, i + 1)

\* The loop of compareVersions from part i on: a missing part counts as 0;
\* when a part is no number the parts are compared as strings.
RECURSIVE compareParts(_, _, _)
compareParts(parts1, parts2, i) ==
    IF i > Len(parts1) /\ i > Len(parts2) THEN 0
    ELSE LET a1 == IF i <= Len(parts1) THEN Atoi(parts1[i])
                   ELSE [n |-> 0, err |-> FALSE]
             a2 == IF i <= Len(parts2) THEN Atoi(parts2[i])
                   ELSE [n |-> 0, err |-> FALSE] IN
         IF a1.err \/ a2.err
         THEN IF i <= Len(parts1) /\ i <= Len(parts2)
              THEN StringsCompare(parts1[i], parts2[i])
              ELSE IF i <= Len(parts1) THEN 1 ELSE -1
         ELSE IF a1.n < a2.n THEN -1
         ELSE IF a1.n > a2.n THEN 1
         ELSE compareParts(parts1, parts2, i + 1)

compareVersions(v1, v2) == compareParts(Split(v1), Split(v2), 1)

InitVersions ==
    /\ version = [e \in Engines |-> e]
    /\ originCloned = FALSE
    /\ remoteRef = 0
    /\ upstream = 0
    /\ branch = [v \in Versions |-> NoBranch]
    /\ worktree = [v \in Versions |-> FALSE]
    /\ binaries = [v \in Versions |-> FALSE]
    /\ localCommits = [v \in Versions |-> FALSE]
    /\ link = [e \in Engines |-> NoLink]
    /\ stockEnabled = [e \in Engines |-> FALSE]
    /\ stockDisabled = [e \in Engines |-> FALSE]
    /\ engines = <<>>
    /\ configExists = FALSE
    /\ \E n1 \in 0..MaxPart, m1 \in 0..MaxPart,
          n2 \in 0..MaxPart, m2 \in 0..MaxPart :
          last = [op |-> "found", a |-> <<n1, m1>>, b |-> <<n2, m2>>]
    /\ extCount = 0

\* DiscoverEngines orders the engines it found with compareVersions: the
\* comparison of the versions of two engines found, N1.M1 and N2.M2, in
\* both orders.  last holds the numbers, the two strings and the two
\* results.
Compare ==
    /\ last.op = "found"
    /\ LET v1 == FormatVersion(last.a[1], last.a[2])
           v2 == FormatVersion(last.b[1], last.b[2]) IN
       last' = [op |-> "compareVersions",
                a |-> last.a, b |-> last.b, v1 |-> v1, v2 |-> v2,
                result |-> compareVersions(v1, v2),
                reverse |-> compareVersions(v2, v1)]
    /\ UNCHANGED <<originCloned, remoteRef, upstream, branch, worktree,
                   binaries, localCommits, link, stockEnabled, stockDisabled,
                   engines, configExists, extCount, version>>

NextVersions == Compare

SpecVersions == InitVersions /\ [][NextVersions]_vars

\* ---------------------------------------------- the order of versions
\* The components a version string is made of here: small numbers, a number
\* of twenty digits, and the "unknown" of extractVersion.
Components ==
    { <<"0">>, <<"2">>, <<"1", "0">>,
      <<"1", "0", "0", "0", "0", "0", "0", "0", "0", "0",
        "0", "0", "0", "0", "0", "0", "0", "0", "0", "0">>,
      <<"u", "n", "k", "n", "o", "w", "n">> }

Unknown == <<"u", "n", "k", "n", "o", "w", "n">>

\* strings.Join(parts, ".").
RECURSIVE Join(_)
Join(parts) ==
    IF Len(parts) = 1 THEN parts[1]
    ELSE parts[1] \o <<".">> \o Join(Tail(parts))

VersionStrings ==
    UNION {{Join(ps) : ps \in [1..n -> Components]} : n \in 1..MaxComponents}

\* What extractVersion returns: the <digits>.<digits> of the directory name
\* or of Build.version, or "unknown".
Discoverable(v) ==
    \/ v = Unknown
    \/ /\ Len(Split(v)) = 2
       /\ \A i \in 1..2 :
             /\ Split(v)[i] # <<>>
             /\ \A j \in 1..Len(Split(v)[i]) : IsDigit(Split(v)[i][j])

InitOrder ==
    /\ version = [e \in Engines |-> e]
    /\ originCloned = FALSE
    /\ remoteRef = 0
    /\ upstream = 0
    /\ branch = [v \in Versions |-> NoBranch]
    /\ worktree = [v \in Versions |-> FALSE]
    /\ binaries = [v \in Versions |-> FALSE]
    /\ localCommits = [v \in Versions |-> FALSE]
    /\ link = [e \in Engines |-> NoLink]
    /\ stockEnabled = [e \in Engines |-> FALSE]
    /\ stockDisabled = [e \in Engines |-> FALSE]
    /\ engines = <<>>
    /\ configExists = FALSE
    /\ \E a \in VersionStrings, b \in VersionStrings, c \in VersionStrings :
          last = [op |-> "found", vs |-> <<a, b, c>>]
    /\ extCount = 0

\* The sort of DiscoverEngines on three versions: last.cmp[i][j] is
\* compareVersions of the i-th and the j-th.
CompareAll ==
    /\ last.op = "found"
    /\ last' = [op |-> "compared", vs |-> last.vs,
                cmp |-> [i \in 1..3 |-> [j \in 1..3 |->
                           compareVersions(last.vs[i], last.vs[j])]]]
    /\ UNCHANGED <<originCloned, remoteRef, upstream, branch, worktree,
                   binaries, localCommits, link, stockEnabled, stockDisabled,
                   engines, configExists, extCount, version>>

NextOrder == CompareAll

SpecOrder == InitOrder /\ [][NextOrder]_vars

\* ------------------------------------------ two engines of one version
\* Two engine directories at different paths whose names give the same
\* version (UE_5.4 and UE_5.4_custom): both are discovered, and the tool is
\* run on them from the initial data directory.
InitShared ==
    /\ version = [e \in Engines |-> 1]
    /\ originCloned = FALSE
    /\ remoteRef = 0
    /\ upstream = 0
    /\ branch = [v \in Versions |-> NoBranch]
    /\ worktree = [v \in Versions |-> FALSE]
    /\ binaries = [v \in Versions |-> FALSE]
    /\ localCommits = [v \in Versions |-> FALSE]
    /\ link = [e \in Engines |-> NoLink]
    /\ stockEnabled \in [Engines -> BOOLEAN]
    /\ stockDisabled = [e \in Engines |-> FALSE]
    /\ engines = <<>>
    /\ configExists = FALSE
    /\ last = NoOp
    /\ extCount = 0

\* With one engine complete the worktree of the version exists, so the
\* other engine is complete or broken: the edit menu never offers Install.
NextShared ==
    \/ FirstTimeSetup
    \/ \E e \in Engines : EditUpdate(e)
    \/ \E e \in Engines : EditRepair(e)
    \/ \E e \in Engines : EditUninstall(e)

SpecShared == InitShared /\ [][NextShared]_vars

\* ------------------------------------------- retry after a failed install
\* An install from the edit menu fails; from then on the user runs, with
\* nothing failing outside the tool, whatever the edit menu offers for the
\* engine: Repair while it is broken, Install while it was never set up.
\* The menu loop returns to the menu after every run, so a retry that is
\* offered is eventually taken.
Pending(e) ==
    /\ last.e = e
    /\ \/ last.op = "Install" /\ last.err # "none"
       \/ last.op = "Retry"
    /\ ~Status(e).IsSetupComplete

Install(e) ==
    /\ \A o \in Engines : ~Pending(o)
    /\ EditInstall(e)

Retry(e) ==
    /\ Pending(e)
    /\ ~isFirstRun(World)
    /\ \E r \in {IF Status(e).IsBroken
                  THEN runRepairForEngine(World, e, DefaultInput)
                  ELSE runSetupForEngine(World, e, DefaultInput)} :
          /\ Store(r.w)
          /\ last' = Ran(World, "Retry", e, [w |-> r.w, err |-> "none"], r.rep)
    /\ UNCHANGED <<upstream, extCount, version>>

NextConverge ==
    \/ \E e \in Engines : Install(e)
    \/ \E e \in Engines : Retry(e)

SpecConverge ==
    InitEdit /\ [][NextConverge]_vars /\ \A e \in Engines : WF_vars(Retry(e))

\* ------------------------------------------------------- discovery scan
\* A scan root with a chain of directories below it, root/d1/d2/...: the
\* directory at depth d (the root is at depth 0) may hold, next to the next
\* directory of the chain, an engine directory UE_<N>.<M>, which is then
\* tree[d + 1] levels below the root: "valid" with UnrealEditor.exe in it,
\* "invalid" without, "none" when there is no such directory.
Trees == [1..MaxLevel -> {"none", "valid", "invalid"}]

\* engine.go scanDirectoryRecursive: the entries of the directory at
\* currentDepth are looked at, then its subdirectories are scanned.
RECURSIVE scanDirectoryRecursive(_, _, _)
scanDirectoryRecursive(tree, currentDepth, maxDepth) ==
    IF currentDepth > maxDepth THEN {}
    ELSE IF currentDepth + 1 > MaxLevel THEN {}
    ELSE (IF tree[currentDepth + 1] # "none"
          THEN {[level |-> currentDepth + 1,
                 Valid |-> tree[currentDepth + 1] = "valid"]}
          ELSE {})
         \cup scanDirectoryRecursive(tree, currentDepth + 1, maxDepth)

scanDirectory(tree) == scanDirectoryRecursive(tree, 0, 2)

\* DiscoverEngines on one root: the valid engines of the scan.
DiscoverEngines(tree) == {eng.level : eng \in {x \in scanDirectory(tree) : x.Valid}}

InitScan ==
    /\ version = [e \in Engines |-> e]
    /\ originCloned = FALSE
    /\ remoteRef = 0
    /\ upstream = 0
    /\ branch = [v \in Versions |-> NoBranch]
    /\ worktree = [v \in Versions |-> FALSE]
    /\ binaries = [v \in Versions |-> FALSE]
    /\ localCommits = [v \in Versions |-> FALSE]
    /\ link = [e \in Engines |-> NoLink]
    /\ stockEnabled = [e \in Engines |-> FALSE]
    /\ stockDisabled = [e \in Engines |-> FALSE]
    /\ engines = <<>>
    /\ configExists = FALSE
    /\ \E tree \in Trees : last = [op |-> "root", tree |-> tree]
    /\ extCount = 0

\* last.found: the levels below the root of the engines discovered.
Scan ==
    /\ last.op = "root"
    /\ last' = [op |-> "DiscoverEngines", tree |-> last.tree,
                found |-> DiscoverEngines(last.tree)]
    /\ UNCHANGED <<originCloned, remoteRef, upstream, branch, worktree,
                   binaries, localCommits, link, stockEnabled, stockDisabled,
                   engines, configExists, extCount, version>>

NextScan == Scan

SpecScan == InitScan /\ [][NextScan]_vars

\* ------------------------------------------------- the batch of setups
\* The first-time setup with the reports of all its engines: last holds the
\* engines selected and, for each engine, the calls made and the error.
SetupSelectedEngines ==
    /\ isFirstRun(World)
    /\ \E g \in {"none", "save"} :
       \E sel \in (SUBSET Offered(World)) \ {{}} :
       \E bad \in SUBSET sel :
       \E fails \in [bad -> EngineFails \ {"none"}] :
       \E declines \in SUBSET {e \in sel \ bad : CheckPluginCollision(World, e)} :
          /\ Cardinality(bad) + (IF g = "none" THEN 0 ELSE 1) <= MaxFailures
          /\ \A e \in bad : fails[e] = "rename" => CheckPluginCollision(World, e)
          /\ \E r \in {runFirstTimeSetup(World, g, sel,
                    [e \in Engines |->
                       [fail |-> IF e \in bad THEN fails[e] ELSE "none",
                        confirm |-> e \notin declines]])} :
                 /\ Len(r.w.cfg) <= MaxRecords
                 /\ Store(r.w)
                 /\ last' = [op |-> "FirstTimeSetup", flowErr |-> r.err,
                             sel |-> sel, res |-> r.res]
    /\ UNCHANGED <<upstream, extCount, version>>

\* "Repair Broken Setup" on all the engines that need a setup, with the
\* reports of all of them.
RepairBrokenSetup ==
    /\ FindEnginesNeedingSetup(World) # {}
    /\ \E bad \in SUBSET FindEnginesNeedingSetup(World) :
       \E fails \in [bad -> RepairFails \ {"none"}] :
          /\ Cardinality(bad) <= MaxFailures
          /\ \E r \in {repairBrokenSetup(World,
                    [e \in Engines |->
                       [fail |-> IF e \in bad THEN fails[e] ELSE "none",
                        confirm |-> TRUE]])} :
                 /\ Store(r.w)
                 /\ last' = [op |-> "repairBrokenSetup", flowErr |-> "none",
                             sel |-> FindEnginesNeedingSetup(World),
                             res |-> r.res]
    /\ UNCHANGED <<upstream, extCount, version>>

NextBatch == SetupSelectedEngines \/ RepairBrokenSetup

SpecBatch == Init /\ [][NextBatch]_vars

\* ------------------------------------------------------------------ claims
Installs == {"FirstTimeSetup", "Install"}

\* C1: the status of an engine is exactly one of never-set-up, broken and
\* complete; it is never-set-up iff neither the worktree nor the junction
\* exists; otherwise complete iff worktree, junction, valid junction and
\* binaries are there and the stock plugin is not enabled; otherwise broken.
C1_Classification ==
    \A e \in Engines :
      LET s == Status(e)
          all == /\ s.WorktreeExists /\ s.JunctionExists /\ s.JunctionValid
                 /\ s.BinariesExist /\ s.StockPluginStatus # "enabled"
      IN  /\ Cardinality({c \in {"NeverSetUp", "Broken", "Complete"} :
                             \/ c = "NeverSetUp" /\ s.IsNeverSetUp
                             \/ c = "Broken" /\ s.IsBroken
                             \/ c = "Complete" /\ s.IsSetupComplete}) = 1
          /\ s.IsNeverSetUp <=> (~s.WorktreeExists /\ ~s.JunctionExists)
          /\ ~s.IsNeverSetUp => (s.IsSetupComplete <=> all)
          /\ (~s.IsNeverSetUp /\ ~all) => s.IsBroken

C1_Witness ==
    /\ last.op = "detect"
    /\ Status(last.e).IsBroken
    /\ \E e \in Engines : Status(e).IsSetupComplete
    /\ Status(last.e).WorktreeExists /\ Status(last.e).JunctionExists

\* C2 (as stated): a broken engine's issue list has an issue for each of the
\* five conditions that is false and for no other; with the worktree absent
\* the missing binaries are listed too.
C2_IssuePerFalseCondition ==
    \A e \in Engines :
      LET s == Status(e)
          I == RangeOf(s.Issues)
      IN  s.IsBroken =>
            /\ IssueWorktree \in I <=> ~s.WorktreeExists
            /\ IssueNoJunction \in I <=> ~s.JunctionExists
            /\ IssueBadJunction \in I <=> ~s.JunctionValid
            /\ IssueBinaries \in I <=> ~s.BinariesExist
            /\ IssueStock \in I <=> s.StockPluginStatus = "enabled"

\* C2 (amended): a broken engine's issue list has exactly one issue for each
\* check that was made and failed: the worktree is missing; the junction is
\* missing or, when it exists, points elsewhere; the binaries are missing
\* from a worktree that exists; the stock plugin is enabled.
C2_IssuePerFailedCheck ==
    \A e \in Engines :
      LET s == Status(e)
          I == RangeOf(s.Issues)
      IN  s.IsBroken =>
            /\ IssueWorktree \in I <=> ~s.WorktreeExists
            /\ IssueNoJunction \in I <=> ~s.JunctionExists
            /\ IssueBadJunction \in I <=> (s.JunctionExists /\ ~s.JunctionValid)
            /\ IssueBinaries \in I <=> (s.WorktreeExists /\ ~s.BinariesExist)
            /\ IssueStock \in I <=> s.StockPluginStatus = "enabled"
            /\ Len(s.Issues) = Cardinality(I)
            /\ Len(s.Issues) >= 1

C2_Witness ==
    /\ last.op = "detect"
    /\ last.pre = "Broken"
    /\ ~Status(last.e).WorktreeExists
    /\ ~Status(last.e).BinariesExist
    /\ IssueBinaries \notin RangeOf(Status(last.e).Issues)

\* C3: an engine that was never set up has an empty issue list, and
\* FindEnginesWithIssues does not return it.
C3_NeverSetUpHasNoIssues ==
    \A e \in Engines :
      Status(e).IsNeverSetUp =>
        /\ Status(e).Issues = <<>>
        /\ e \notin FindEnginesWithIssues(World)

\* C4: when an engine is complete and one change from outside removes its
\* worktree, its binaries or the validity of its link, the link still being
\* on disk, the next detection finds the engine broken.
C4_BrokenAfterOneLoss ==
    [][\A e \in Engines :
         ( /\ Status(e).IsSetupComplete
           /\ extCount' = extCount + 1
           /\ \/ ~worktree'[VersionOf(e)]
              \/ ~binaries'[VersionOf(e)]
              \/ link'[e] # link[e]
           /\ link'[e].kind = "link" )
         => detectEngineSetupStatus(World, e)'.IsBroken]_vars

\* C5: JunctionExists is true of a link whose destination was deleted.
C5_DanglingLinkExists ==
    \A e \in Engines :
      ( /\ link[e].kind = "link"
        /\ link[e].to \in Versions
        /\ ~worktree[link[e].to] )
      => JunctionExists(World, e)

\* An install has just run on engine last.e and returned no error.
InstallRan == last.op \in Installs /\ last.e \in Engines

Succeeded == last.err = "none" /\ last.flowErr = "none"

Before(trace, a, b) ==
    \A j \in 1..Len(trace) :
      trace[j] = b => \E i \in 1..(j - 1) : trace[i] = a

C7_LinkBeforeBuild ==
    InstallRan => Before(last.trace, "CreateJunction", "BuildForEngine")

\* C8: an install on an engine whose stock plugin is not enabled (not found,
\* or already disabled) attempts no disable, and does not fail for it.
C8_DisableOnlyOnCollision ==
    (InstallRan /\ last.preStock # "enabled") =>
      /\ "DisableStockPlugin" \notin RangeOf(last.trace)
      /\ last.err # "DisableStockPlugin"

\* C9: an install adds a record of the engine to the configuration exactly
\* when all its steps succeeded.
C9_RecordIffSuccess ==
    InstallRan => (last.added <=> Succeeded)

\* C10: every update fetches before it computes the update info, so an
\* update that reports "already up to date" leaves no commit of the remote
\* behind.
C10_FetchBeforeUpdateInfo ==
    last.op = "Update" =>
      /\ "GetUpdateInfo" \in RangeOf(last.trace) =>
            /\ "FetchAll" \in RangeOf(last.trace)
            /\ Before(last.trace, "FetchAll", "GetUpdateInfo")
      /\ (last.err = "none" /\ last.trace = <<"GetUpdateInfo">>) =>
            branch[VersionOf(last.e)] >= upstream

Count(trace, a) == Cardinality({i \in 1..Len(trace) : trace[i] = a})

\* C11: when the update info counts no commit (in particular when the local
\* and the remote commit are the same), the update stops there without an
\* error: no merge, no build, and the repository, the worktrees and the
\* binaries are what they were.
C11_UpToDateIsNoOp ==
    [][( /\ last'.op = "Update"
         /\ last'.err # "GetUpdateInfo"
         /\ CommitsAhead(World, VersionOf(last'.e)) = 0 )
       => /\ last'.trace = <<"GetUpdateInfo">>
          /\ last'.err = "none"
          /\ UNCHANGED <<originCloned, remoteRef, branch, worktree, binaries,
                         localCommits, link, stockEnabled, stockDisabled>>]_vars

C11_Witness ==
    /\ last.op = "Update"
    /\ last.err = "none"
    /\ last.trace = <<"GetUpdateInfo">>
    /\ branch[VersionOf(last.e)] = remoteRef
    /\ remoteRef > 0

C13_DivergedFailsLoudly ==
    [][\A e \in Engines :
         ( /\ last'.op = "Update" /\ last'.e = e
           /\ last'.err # "GetUpdateInfo"
           /\ Diverged(World, VersionOf(e)) )
         => /\ last'.err = "UpdateWorktree"
            /\ "BuildForEngine" \notin RangeOf(last'.trace)
            /\ branch' = branch
            /\ localCommits' = localCommits
            /\ binaries' = binaries]_vars

C13_Witness ==
    /\ last.op = "Update"
    /\ last.err = "UpdateWorktree"
    /\ last.pre = "Complete"
    /\ Diverged(World, VersionOf(last.e))

\* The place of a remediation in the order worktree, link, build, stock
\* plugin.
RepairRank(a) ==
    CASE a = "CreateWorktree" -> 1
      [] a \in {"RemoveJunction", "CreateJunction"} -> 2
      [] a = "BuildForEngine" -> 3
      [] a = "DisableStockPlugin" -> 4
      [] OTHER -> 0

\* C14: the remediations of a repair run in the order worktree, link, build,
\* stock plugin; in a repair that fixes the link and rebuilds, the link is
\* recreated before the build is started.
C14_RepairLinkBeforeBuild ==
    last.op = "Repair" =>
      \A i, j \in 1..Len(last.trace) :
        i < j => RepairRank(last.trace[i]) <= RepairRank(last.trace[j])

\* C15: a repair of an engine that is complete makes no call: no worktree is
\* created, no link removed or created, no build started, the stock plugin
\* not renamed; nothing on disk changes and the status has no issue.
C15_RepairOfCompleteDoesNothing ==
    [][\A e \in Engines :
         ( /\ last'.op = "Repair" /\ last'.e = e
           /\ Status(e).IsSetupComplete )
         => /\ last'.trace = <<>>
            /\ last'.err = "none"
            /\ UNCHANGED <<originCloned, remoteRef, branch, worktree, binaries,
                           localCommits, link, stockEnabled, stockDisabled,
                           engines, configExists>>
            /\ detectEngineSetupStatus(World, e)'.Issues = <<>>]_vars

C15_Witness ==
    /\ last.op = "Repair"
    /\ last.pre = "Complete"
    /\ last.trace = <<>>
    /\ Status(last.e).IsSetupComplete

\* C16: a repair of an engine that lacks nothing but its link (the worktree
\* and the binaries are there, the stock plugin is not enabled, the link
\* path is empty) creates no worktree and starts no build; the worktrees, the
\* branches and the binaries are what they were, and when it returns no
\* error the link is back and the engine is complete.
C16_RepairOfLinkOnly ==
    [][\A e \in Engines :
         ( /\ last'.op = "Repair" /\ last'.e = e
           /\ Status(e).WorktreeExists
           /\ Status(e).BinariesExist
           /\ Status(e).StockPluginStatus # "enabled"
           /\ link[e] = NoLink )
         => /\ "CreateWorktree" \notin RangeOf(last'.trace)
            /\ "BuildForEngine" \notin RangeOf(last'.trace)
            /\ "CreateJunction" \in RangeOf(last'.trace)
            /\ UNCHANGED <<originCloned, branch, worktree, binaries, localCommits>>
            /\ last'.err = "none" =>
                  /\ link'[e] = LinkTo(VersionOf(e))
                  /\ detectEngineSetupStatus(World, e)'.IsSetupComplete]_vars

C16_Witness ==
    /\ last.op = "Repair"
    /\ last.err = "none"
    /\ last.trace = <<"RemoveJunction", "CreateJunction">>
    /\ last.pre = "Broken"
    /\ Status(last.e).IsSetupComplete
    /\ extCount = 1

\* config.GetEngineByPath: the first record of the engine says the tool
\* disabled its stock plugin.
DisabledByTool(cfg, e) ==
    \E i \in 1..Len(cfg) :
      /\ cfg[i].EnginePath = e
      /\ cfg[i].StockPluginDisabledByTool
      /\ \A j \in 1..(i - 1) : cfg[j].EnginePath # e

\* C17: an uninstall of an engine whose record does not say that the tool
\* disabled the stock plugin leaves both manifest files of the stock plugin
\* alone, attempts no re-enable, and does not fail for it.
C17_EnableOnlyIfDisabledByTool ==
    [][\A e \in Engines :
         ( /\ last'.op = "Uninstall" /\ last'.e = e
           /\ ~DisabledByTool(engines, e) )
         => /\ "EnableStockPlugin" \notin RangeOf(last'.trace)
            /\ last'.err # "EnableStockPlugin"
            /\ stockEnabled'[e] = stockEnabled[e]
            /\ stockDisabled'[e] = stockDisabled[e]]_vars

\* C18: after an uninstall that returned no error, the configuration holds
\* no record of the engine.
C18_RecordDroppedByUninstall ==
    (last.op = "Uninstall" /\ last.err = "none") =>
      Records(engines, last.e) = 0

\* C19: an uninstall of a complete engine whose stock plugin is disabled or
\* not found, no removal failing, removes the origin when no complete engine
\* remains, and leaves it when one does.
C19_OriginRemovedWithLastEngine ==
    ( /\ last.op = "Uninstall"
      /\ last.pre = "Complete"
      /\ \/ last.preStock = "disabled" /\ last.err = "none"
         \/ last.preStock = "not_found" /\ last.err \in {"none", "EnableStockPlugin"}
      /\ WarnOrigin \notin RangeOf(last.trace) )
    => IF \E e \in Engines : Status(e).IsSetupComplete
       THEN originCloned
       ELSE ~originCloned

\* C20: the origin is never gone while a worktree is still there.
C20_NoWorktreeWithoutOrigin ==
    ~originCloned => \A v \in Versions : ~worktree[v]

\* C21: after an uninstall that returned no error, the engine has no link at
\* its link path (a dangling one is removed too) and no worktree, and is
\* never-set-up.
C21_UninstallLeavesNothing ==
    (last.op = "Uninstall" /\ last.err = "none") =>
      /\ link[last.e].kind # "link"
      /\ ~worktree[VersionOf(last.e)]
      /\ Status(last.e).IsNeverSetUp

\* C26: a failure of the query for the default branch never ends the
\* first-time setup: the flow goes on with the fallback branch "dev".
C26_DefaultBranchNeverAborts ==
    last.op = "FirstTimeSetup" => last.flowErr # "defaultBranch"

\* C22: CreateJunction called again on an engine right after a call that
\* succeeded returns no error and leaves the link as it is: it neither
\* removes nor recreates it, so nothing that fails in a removal or a creation
\* can fail the second call.
C22_CreateJunctionIdempotent ==
    [][\A e \in Engines :
         ( /\ last.op = "CreateJunction" /\ last.e = e /\ last.err = "none"
           /\ last'.op = "CreateJunction" /\ last'.e = e )
         => (last'.err = "none" /\ link'[e] = link[e])]_vars

\* C23: when the creation step of CreateJunction has run (the link path was
\* free and the worktree there), the call returns no error exactly when the
\* link is on disk and verifies, whatever the subprocess reported.
C23_SuccessDecidedByFilesystem ==
    [][\A e \in Engines :
         ( /\ link[e] = NoLink /\ worktree[VersionOf(e)]
           /\ last'.op = "CreateJunction" /\ last'.e = e )
         => (last'.err = "none" <=> VerifyJunction(World, e, VersionOf(e))')]_vars

\* A disable and then an enable of the stock plugin of last.e, both without
\* error, have just run.
RoundTrip ==
    /\ last.trace = <<"DisableStockPlugin", "EnableStockPlugin">>
    /\ last.err = "none"

\* C24 as stated: after a disable and an enable that both succeeded, the
\* status of the stock plugin is what it was before the disable, and the
\* manifest files are the same as before, whatever they were.
C24_RoundTripFromAnyState ==
    RoundTrip => StockFiles(World, last.e) = last.pre

\* C24: after a disable and an enable that both succeeded, the status of the
\* stock plugin is what it was before the disable; the manifest files are the
\* same as before when no disabled manifest was there before the disable.
C24_RoundTrip ==
    RoundTrip =>
      /\ GetStockPluginStatus(World, last.e) = "enabled"
      /\ last.pre \in {"enabled", "both"}
      /\ last.pre = "enabled" => StockFiles(World, last.e) = "enabled"

C24_Witness ==
    RoundTrip /\ last.pre = "enabled" /\ StockFiles(World, last.e) = "enabled"

\* C25: no call removes the stock plugin: an engine that has a manifest of
\* it, enabled or disabled or both, has one after every step.
C25_StockPluginNeverDeleted ==
    [][\A e \in Engines :
         GetStockPluginStatus(World, e) # "not_found"
         => GetStockPluginStatus(World, e)' # "not_found"]_vars

C25_Witness ==
    /\ last.op = "DisableStockPlugin" /\ last.err = "none"
    /\ last.preStock = "both"
    /\ GetStockPluginStatus(World, last.e) = "disabled"

\* The calls of last.trace that are tiers of the removal.
TierCalls == SelectSeq(last.trace, LAMBDA c : c.call # "branch -D")

\* C27: RemoveWorktree on an absent worktree makes no call and returns no
\* error.  On a present one it tries the three tiers in their order, a tier
\* only after the one before it failed and no tier after one that
\* succeeded; it returns an error exactly when the third tier was tried and
\* failed, the worktree is gone when it returns none, and the result of the
\* deletion of the branch changes nothing of this.
C27_ThreeTiers ==
    last.op = "RemoveWorktree" =>
      /\ last.pre = "absent" => (last.trace = <<>> /\ last.err = "none")
      /\ last.pre = "present" =>
            LET t == TierCalls IN
            /\ Len(t) \in 1..3
            /\ \A i \in 1..Len(t) : t[i].call = Tiers[i]
            /\ \A i \in 1..(Len(t) - 1) : ~t[i].ok
            /\ ~t[Len(t)].ok => Len(t) = 3
            /\ last.err # "none" <=> (Len(t) = 3 /\ ~t[3].ok)
            /\ last.err = "none" =>
                  /\ ~worktree[last.e]
                  /\ Len(last.trace) = Len(t) + 1
                  /\ last.trace[Len(last.trace)].call = "branch -D"

C27_Witness ==
    /\ last.op = "RemoveWorktree" /\ last.pre = "present"
    /\ last.err = "none"
    /\ Len(TierCalls) = 3
    /\ ~last.trace[Len(last.trace)].ok
    /\ ~worktree[last.e]

Sign(x) == IF x < 0 THEN -1 ELSE IF x > 0 THEN 1 ELSE 0

\* The order of two pairs of integers, first component first.
ComparePairs(p, q) ==
    IF p[1] < q[1] THEN -1 ELSE IF p[1] > q[1] THEN 1
    ELSE IF p[2] < q[2] THEN -1 ELSE IF p[2] > q[2] THEN 1 ELSE 0

\* C28: for the version strings N1.M1 and N2.M2, compareVersions in one
\* order is the negation of compareVersions in the other, and its sign is
\* the order of the pairs (N1, M1) and (N2, M2) as integers.
C28_CompareVersionsNumeric ==
    last.op = "compareVersions" =>
      /\ last.result = 0 - last.reverse
      /\ Sign(last.result) = ComparePairs(last.a, last.b)

C28_Witness ==
    /\ last.op = "compareVersions"
    /\ last.v1 = <<"5", ".", "1", "0">>
    /\ last.v2 = <<"5", ".", "4">>
    /\ last.result > 0

\* C29: in an install, a repair or an uninstall, the step that failed is the
\* last step run and the error of the flow names it; a flow that returns no
\* error had no step that failed: a disable it attempted has left the stock
\* plugin disabled, and no warning stands for a failed step.
C29_StepFailureAborts ==
    (last.op \in Installs \cup {"Repair", "Uninstall"} /\ last.e \in Engines) =>
      /\ last.err # "none" => last.trace[Len(last.trace)] = last.err
      /\ last.err = "none" =>
            /\ "DisableStockPlugin" \in RangeOf(last.trace)
                  => ~stockEnabled[last.e]
            /\ WarnOrigin \notin RangeOf(last.trace)

\* C30: in the first-time setup and in the repair of all engines, every
\* engine of the batch is processed, whatever happened to the engines before
\* it: its first call was made also when an earlier engine failed; an engine
\* that is not of the batch is not touched.
C30_BatchContinuesAfterFailure ==
    last.op \in {"FirstTimeSetup", "repairBrokenSetup"} =>
      \A e \in Engines :
        IF e \in last.sel
        THEN /\ last.res[e].trace # <<>>
             /\ last.op = "FirstTimeSetup"
                  => last.res[e].trace[1] = "CreateEngineBranch"
        ELSE last.res[e] = NotRun

C30_Witness ==
    /\ last.op = "FirstTimeSetup" /\ last.flowErr = "none"
    /\ \E e1 \in last.sel, e2 \in last.sel :
          /\ e1 < e2
          /\ last.res[e1].err # "none"
          /\ last.res[e2].err = "none"
          /\ "AddEngine" \in RangeOf(last.res[e2].trace)
          /\ Status(e2).IsSetupComplete

\* C36: in every status the detection produces, the setup is complete
\* exactly when the issue list is empty, a valid junction is a junction that
\* exists, and binaries that exist are in a worktree that exists.
C36_CompleteIffNoIssues ==
    \A e \in Engines :
      LET s == Status(e) IN
      /\ s.IsSetupComplete <=> s.Issues = <<>>
      /\ s.JunctionValid => s.JunctionExists
      /\ s.BinariesExist => s.WorktreeExists

C36_Witness ==
    /\ last.op = "detect" /\ last.pre = "Complete"
    /\ Status(last.e).Issues = <<>>
    /\ \E e \in Engines :
          /\ ~Status(e).IsSetupComplete
          /\ Len(Status(e).Issues) > 1

\* C33: every flow runs an action on an engine of the class the action is
\* for, as detected when the flow chose it: an install on a never-set-up
\* engine, an update on a complete one, a repair on a broken one, an
\* uninstall on a complete or a broken one.
C33_ActionGuardedByClass ==
    last.e \in Engines =>
      /\ last.op \in Installs => last.pre = "NeverSetUp"
      /\ last.op = "Update" => last.pre = "Complete"
      /\ last.op = "Repair" => last.pre = "Broken"
      /\ last.op = "Uninstall" => last.pre \in {"Complete", "Broken"}

\* C37: the configuration never holds two records of the same engine path.
C37_OneRecordPerEngine ==
    \A e \in Engines : Records(engines, e) <= 1

\* C38: an install that returned an error has not left the engine complete.
C38_FailedInstallNotComplete ==
    (InstallRan /\ last.err # "none") => ~Status(last.e).IsSetupComplete

\* last.vs[1] is a proper prefix of last.vs[2], component by component.
FirstIsPrefix ==
    LET p == Split(last.vs[1])
        q == Split(last.vs[2]) IN
    Len(p) < Len(q) /\ \A i \in 1..Len(p) : p[i] = q[i]

C39_Transitive ==
    ( /\ last.op = "compared"
      /\ \A i \in 1..3 : Discoverable(last.vs[i])
      /\ last.cmp[1][2] < 0 /\ last.cmp[2][3] < 0 )
    => last.cmp[1][3] < 0

\* C35: the engines discovered below a root are the valid engine
\* directories at most 2 levels below it: one that is 3 or more levels below
\* the root (root/a/b/UE_5.4) is not discovered.
C35_AtMostTwoLevels ==
    last.op = "DiscoverEngines" =>
      \A l \in 1..MaxLevel :
        l \in last.found <=> (last.tree[l] = "valid" /\ l <= 2)

\* The runs of the edit menu, as last.op names them.
EditOps == {"Install", "Update", "Repair", "Uninstall"}

\* C31: a run of the edit menu on one engine leaves the worktree, the link,
\* the binaries and the stock plugin of every other engine as they were,
\* also when the engines have the same version; an uninstall of one engine
\* leaves every other complete engine complete.
C31_OthersUnchanged ==
    [][\A e \in Engines : \A o \in Engines \ {e} :
         (last'.e = e /\ last'.op \in EditOps)
         => /\ worktree'[VersionOf(o)] = worktree[VersionOf(o)]
            /\ binaries'[VersionOf(o)] = binaries[VersionOf(o)]
            /\ link'[o] = link[o]
            /\ stockEnabled'[o] = stockEnabled[o]
            /\ stockDisabled'[o] = stockDisabled[o]
            /\ (last'.op = "Uninstall" /\ Status(o).IsSetupComplete)
                 => Status(o)'.IsSetupComplete]_vars

\* C32: after an install of an engine that was never set up has failed,
\* running the offered action again and again with nothing failing outside
\* the tool eventually leaves the engine complete.
C32_Converges ==
    \A e \in Engines :
      (last.op = "Install" /\ last.e = e /\ last.err # "none"
         /\ last.pre = "NeverSetUp")
      ~> Status(e).IsSetupComplete

====
